---- MODULE Spec2Model ----
(***************************************************************************)
(* Model of the DeepLabCut label editor (src/editor.py).                   *)
(*                                                                         *)
(* The editor is single threaded.  Editor.run draws the current frame and  *)
(* then blocks in cv2.waitKey(0); while it blocks, the window delivers     *)
(* mouse events to Editor._edit_label and slider changes to the two        *)
(* trackbar observers.  A key press ends the wait: the key is handled and, *)
(* unless it was the quit key, the loop body runs again before the next    *)
(* wait.  Each action below is one such handler, run to completion.        *)
(***************************************************************************)
EXTENDS Integers, Sequences, FiniteSets, TLC

(* ---- bounds of the model ---------------------------------------------- *)
\* number of frames of the video (cv2.CAP_PROP_FRAME_COUNT) and rows of the table
NumFrames == 2
\* mouse events arrive from positions (c, c + 1) with c in 0..MaxCoord
MaxCoord == 1
\* at most this many cells are edited in one session
MaxEdited == 2
MaxNameLen == 3

(* ---- key codes tested by Editor.run ----------------------------------- *)
KeyLeft == 44
KeyRight == 46
KeyEsc == 27
\* some key the loop does not map
KeyOther == CHOOSE k \in 0..255 : k \notin {KeyLeft, KeyRight, KeyEsc}
Keys == {KeyLeft, KeyRight, KeyEsc, KeyOther}

(* ---- values ----------------------------------------------------------- *)
\* A number: n, n + 1/2, or nan
Float(n, h) == [nan |-> FALSE, int |-> n, half |-> h]
NaN == [nan |-> TRUE, int |-> 0, half |-> FALSE]
\* a Python int, also as stored in a float64 column
FromInt(n) == Float(n, FALSE)
\* int(round(v)): round half to even
Round(v) == IF ~v.half THEN v.int
            ELSE IF v.int % 2 = 0 THEN v.int ELSE v.int + 1
\* a file that was not written, a window that shows nothing, no marker, no text
Absent == <<>>

\* self.__label_names: the sorted unique label names of the table
label_names == <<"nose", "tail">>
NumLabels == Len(label_names)
\* label_names[l] for a 0-based index l
LabelName(l) == label_names[l + 1]

Frames == 0..(NumFrames - 1)
\* the indices into label_names
Labels == 0..(NumLabels - 1)
Cells == Frames \X Labels
\* the positions mouse events are reported at: x and y differ in each, and from one to the next
MousePoints == { <<c, c + 1>> : c \in 0..MaxCoord }

\* self.__frame_count: the largest frame index
frame_count == NumFrames - 1
\* the largest label index, len(self.__label_names)-1
label_max == NumLabels - 1

(* ---- file paths --------------------------------------------------------- *)
\* a file name without its extension is a sequence of these pieces
NameTokens == {"a", "b", "_Fixed"}
Names == UNION { [1..n -> NameTokens] : n \in 1..MaxNameLen }
\* read_cli_parameters accepts an extension that is ".h5" in lower case
Exts == {".h5", ".H5"}
LabelFiles == [folder : {"dir"}, name : Names, ext : Exts]
NoPath == [folder |-> "", name |-> <<>>, ext |-> ""]
DefaultLabelFile == [folder |-> "dir", name |-> <<"a">>, ext |-> ".h5"]

\* str.rsplit('_Fixed')[0]: with no maxsplit every occurrence splits, and the
\* first piece is what precedes the first occurrence
RSplitFixed0(name) ==
    LET hits == { i \in 1..Len(name) : name[i] = "_Fixed" }
    IN  IF hits = {} THEN name
        ELSE SubSeq(name, 1, (CHOOSE i \in hits : \A j \in hits : i <= j) - 1)

\* variant: "_Fixed" is appended to the whole name
FixedLabelFile_Append(f) ==
    [folder |-> f.folder, name |-> f.name \o <<"_Fixed">>, ext |-> ".h5"]

\* Editor.__init__ lines 44-47
FixedLabelFile(f) ==
    [folder |-> f.folder, name |-> RSplitFixed0(f.name) \o <<"_Fixed">>, ext |-> ".h5"]

(* ---- the loaded table ------------------------------------------------- *)
\* the likelihood column of a cell: a value that differs from cell to cell
Likelihood(c) == c[1] * NumLabels + c[2]
Cell(x, y, c) == [x |-> x, y |-> y, likelihood |-> Likelihood(c)]
\* the input file: annotated even frames (1.5, 0.5), unannotated odd frames
BaseXY(c) == IF c[1] % 2 = 0 THEN <<Float(1, TRUE), Float(0, TRUE)>> ELSE <<NaN, NaN>>
LoadedTables == { [c \in Cells |-> Cell(BaseXY(c)[1], BaseXY(c)[2], c)] }

VARIABLES
    label_data,     \* self.__label_data: Cells -> [x, y, likelihood]
    current_label,  \* self.__current_label
    current_frame,  \* self.__current_frame
    mx, my,         \* self.__mx, self.__my
    mouse_pressed,  \* self.__mouse_pressed
    changes_made,   \* self.__changes_made
    h5_file,        \* contents of self.__fixed_label_file written this session
    mat_file,       \* contents of the *.mat file written this session
    shown,          \* what the last cv2.imshow call displayed
    pc,             \* "start", "wait" (in cv2.waitKey), "done", "error"
    event,          \* history: the handler that ran last and its input
    raised,         \* history: the exception the last handler raised, or "none"
    ops,            \* history: the effects of the last handler, in order
    loaded,         \* history: the table as read by pd.read_hdf
    label_file,     \* self.__label_file: [folder, name, ext]
    fixed_label_file, \* self.__fixed_label_file
    touched,        \* history: cells that were active during a store write
    gesture         \* history: progress of an uninterrupted down/drag/up sequence

vars == <<label_data, current_label, current_frame, mx, my, mouse_pressed,
          changes_made, h5_file, mat_file, shown, pc, event, raised, ops,
          loaded, label_file, fixed_label_file, touched, gesture>>

(* ---- helpers of Editor ------------------------------------------------ *)
Max(a, b) == IF a >= b THEN a ELSE b
Min(a, b) == IF a <= b THEN a ELSE b

\* The position a trackbar created with range 0..count reports for a request
TrackbarPos(i, count) == Max(0, Min(i, count))

\* Editor._get_label_xy: an index outside the table raises KeyError, and
\* int(round(nan)) raises ValueError; line 83 tests x_f where it converts y_f
GetLabelXY(data, label, frame) ==
    LET x_f == data[<<frame, label>>].x
        y_f == data[<<frame, label>>].y
    IN  IF <<frame, label>> \notin DOMAIN data
        THEN [err |-> "KeyError", x |-> NaN, y |-> NaN]
        ELSE IF x_f.nan THEN [err |-> "none", x |-> NaN, y |-> NaN]
        ELSE IF y_f.nan THEN [err |-> "ValueError", x |-> NaN, y |-> NaN]
        ELSE [err |-> "none", x |-> FromInt(Round(x_f)), y |-> FromInt(Round(y_f))]

\* Editor._draw_label: the image handed to cv2.imshow
DrawLabel(frame, label, x, y) ==
    IF ~x.nan /\ ~y.nan
    THEN <<[frame |-> frame, marker |-> <<x.int, y.int>>, text |-> <<LabelName(label)>>]>>
    ELSE <<[frame |-> frame, marker |-> Absent, text |-> Absent]>>

\* variant: the two coordinates are stored in each other's column
SaveLabelData_SwapXY(data, label, frame, x, y) ==
    [data EXCEPT ![<<frame, label>>].x = y,
                 ![<<frame, label>>].y = x]

\* variant: the assignment reaches every frame of the label's columns
SaveLabelData_WholeColumn(data, label, frame, x, y) ==
    [c \in DOMAIN data |-> IF c[2] = label THEN [data[c] EXCEPT !.x = x, !.y = y]
                                          ELSE data[c]]

\* variant: the second assignment (line 99) is missing
SaveLabelData_OnlyX(data, label, frame, x, y) ==
    [data EXCEPT ![<<frame, label>>].x = x]

\* Editor._save_label, lines 98-99: the table after the two assignments
SaveLabelData(data, label, frame, x, y) ==
    [data EXCEPT ![<<frame, label>>].x = x,
                 ![<<frame, label>>].y = y]

\* variant: the columns are taken from the input file read again (lines 151-154)
SaveMatlabFile_Reread(data) ==
    [name \in { LabelName(l) : l \in Labels } |->
        LET l == CHOOSE k \in Labels : LabelName(k) = name
        IN  [x |-> [i \in 1..NumFrames |-> loaded[<<i - 1, l>>].x],
             y |-> [i \in 1..NumFrames |-> loaded[<<i - 1, l>>].y],
             likelihood |-> [i \in 1..NumFrames |-> loaded[<<i - 1, l>>].likelihood]]]

\* Editor._save_matlab_file: per label the three columns in frame order
SaveMatlabFile(data) ==
    [name \in { LabelName(l) : l \in Labels } |->
        LET l == CHOOSE k \in Labels : LabelName(k) = name
        IN  [x |-> [i \in 1..NumFrames |-> data[<<i - 1, l>>].x],
             y |-> [i \in 1..NumFrames |-> data[<<i - 1, l>>].y],
             likelihood |-> [i \in 1..NumFrames |-> data[<<i - 1, l>>].likelihood]]]

\* the record of a handler run: its name and its input (for a key, also the
\* frame it was pressed at)
Ev(name, a) == [name |-> name, a |-> a]

(* ---- initial state: after Editor.__init__ ----------------------------- *)
Init ==
    /\ label_data \in LoadedTables
    /\ loaded = label_data
    /\ label_file = DefaultLabelFile
    /\ fixed_label_file = FixedLabelFile(label_file)
    /\ current_label = 0
    /\ current_frame = 0
    /\ mx = 0
    /\ my = 0
    /\ mouse_pressed = FALSE
    /\ changes_made = FALSE
    /\ h5_file = Absent
    /\ mat_file = Absent
    /\ shown = Absent
    /\ pc = "start"
    /\ event = Ev("init", <<>>)
    /\ raised = "none"
    /\ ops = <<>>
    /\ touched = {}
    /\ gesture = "none"

\* a store write at this frame stays within the cells explored
CanEdit(frame) == Cardinality(touched \cup {<<frame, current_label>>}) <= MaxEdited

\* variant: line 103 is missing
SaveLabel_NoFlag(frame, x, y) ==
    /\ label_data' = SaveLabelData(label_data, current_label, frame, FromInt(x), FromInt(y))
    /\ h5_file' = <<label_data'>>
    /\ changes_made' = changes_made
    /\ touched' = touched \cup {<<frame, current_label>>}

\* variant: the file is written before the table is updated
SaveLabel_FileFirst(frame, x, y) ==
    /\ label_data' = SaveLabelData(label_data, current_label, frame, FromInt(x), FromInt(y))
    /\ h5_file' = <<label_data>>
    /\ changes_made' = TRUE
    /\ touched' = touched \cup {<<frame, current_label>>}

(* ---- Editor._save_label ----------------------------------------------- *)
\* overwrite x and y of the active cell, rewrite the *_Fixed.h5 file, set the flag
SaveLabel(frame, x, y) ==
    /\ label_data' = SaveLabelData(label_data, current_label, frame, FromInt(x), FromInt(y))
    /\ h5_file' = <<label_data'>>
    /\ changes_made' = TRUE
    /\ touched' = touched \cup {<<frame, current_label>>}

\* variant: the pass always draws what the table held for the cell
LoopBody_DrawsStore(frame) ==
    LET r == GetLabelXY(label_data, current_label, frame)
    IN  /\ r.err = "none"
        /\ IF mouse_pressed
           THEN CanEdit(frame) /\ SaveLabel(frame, mx, my)
           ELSE UNCHANGED <<label_data, h5_file, changes_made, touched>>
        /\ shown' = DrawLabel(frame, current_label, r.x, r.y)
        /\ ops' = <<"imshow">>
        /\ raised' = "none"
        /\ pc' = "wait"

(* ---- Editor.run, lines 180-196: one pass of the loop body ------------- *)
\* cv2.setTrackbarPos re-enters _on_frame_trackbar with the current frame,
\* which leaves every field as it is; its drawing is overwritten by line 196.
LoopBody(frame) ==
    IF mouse_pressed
    THEN /\ CanEdit(frame)
         /\ SaveLabel(frame, mx, my)
         /\ shown' = DrawLabel(frame, current_label, FromInt(mx), FromInt(my))
         /\ ops' = <<"store", "to_hdf", "imshow">>
         /\ raised' = "none"
         /\ pc' = "wait"
    ELSE LET r == GetLabelXY(label_data, current_label, frame)
         IN  /\ UNCHANGED <<label_data, h5_file, changes_made, touched>>
             /\ raised' = r.err
             /\ IF r.err = "none"
                THEN /\ shown' = DrawLabel(frame, current_label, r.x, r.y)
                     /\ ops' = <<"imshow">>
                     /\ pc' = "wait"
                ELSE /\ UNCHANGED shown
                     /\ ops' = <<>>
                     /\ pc' = "error"

\* run() is entered: the first pass of the loop
Start ==
    /\ pc = "start"
    /\ LoopBody(current_frame)
    /\ event' = Ev("start", <<>>)
    /\ gesture' = "none"
    /\ UNCHANGED <<current_frame, current_label, mx, my, mouse_pressed, mat_file, loaded, label_file, fixed_label_file>>

\* variant: the *_Fixed.h5 file is written again after the loop
Export_Rewrites ==
    /\ shown' = Absent
    /\ h5_file' = IF changes_made THEN <<label_data>> ELSE h5_file
    /\ mat_file' = IF changes_made THEN <<SaveMatlabFile(label_data)>> ELSE mat_file
    /\ ops' = IF changes_made THEN <<"to_hdf", "savemat">> ELSE <<>>
    /\ raised' = "none"
    /\ pc' = "done"
    /\ UNCHANGED <<label_data, changes_made, touched>>

\* variant: the *.mat file is written without looking at the flag
Export_Always ==
    /\ shown' = Absent
    /\ mat_file' = <<SaveMatlabFile(label_data)>>
    /\ ops' = <<"savemat">>
    /\ raised' = "none"
    /\ pc' = "done"
    /\ UNCHANGED <<label_data, h5_file, changes_made, touched>>

(* ---- Editor.run, lines 207-218: after the loop ------------------------ *)
Export ==
    /\ shown' = Absent
    /\ mat_file' = IF changes_made THEN <<SaveMatlabFile(label_data)>> ELSE mat_file
    /\ ops' = IF changes_made THEN <<"savemat">> ELSE <<>>
    /\ raised' = "none"
    /\ pc' = "done"
    /\ UNCHANGED <<label_data, h5_file, changes_made, touched>>

\* variant: stepping past either end wraps around
KeyFrame_Wrap(key, frame) ==
    IF key = KeyLeft THEN (frame + frame_count) % (frame_count + 1)
    ELSE IF key = KeyRight THEN (frame + 1) % (frame_count + 1)
    ELSE frame

(* ---- Editor.run, lines 198-205: the key that ended cv2.waitKey -------- *)
KeyFrame(key, frame) ==
    IF key = KeyLeft THEN Max(0, frame - 1)
    ELSE IF key = KeyRight THEN Min(frame_count, frame + 1)
    ELSE frame

Key(key) ==
    /\ pc = "wait"
    /\ current_frame' = KeyFrame(key, current_frame)
    /\ IF key = KeyEsc
       THEN Export
       ELSE LoopBody(current_frame') /\ UNCHANGED mat_file
    /\ event' = Ev("key", <<key, current_frame>>)
    /\ gesture' = "none"
    /\ UNCHANGED <<current_label, mx, my, mouse_pressed, loaded, label_file, fixed_label_file>>

(* ---- Editor._edit_label ----------------------------------------------- *)
MouseDown(ex, ey) ==
    /\ pc = "wait"
    /\ CanEdit(current_frame)
    /\ mx' = ex
    /\ my' = ey
    /\ SaveLabel(current_frame, mx', my')
    /\ shown' = DrawLabel(current_frame, current_label, FromInt(mx'), FromInt(my'))
    /\ mouse_pressed' = TRUE
    /\ ops' = <<"store", "to_hdf", "imshow">>
    /\ raised' = "none"
    /\ event' = Ev("down", <<ex, ey>>)
    /\ gesture' = IF mouse_pressed THEN "none" ELSE "down"
    /\ UNCHANGED <<current_frame, current_label, mat_file, pc, loaded, label_file, fixed_label_file>>

\* variant: line 136 is missing, the button stays held
MouseUp_KeepsPressed ==
    /\ pc = "wait"
    /\ UNCHANGED mouse_pressed
    /\ ops' = <<>>
    /\ raised' = "none"
    /\ event' = Ev("up", <<>>)
    /\ gesture' = IF gesture = "drag" THEN "up" ELSE "none"
    /\ UNCHANGED <<label_data, current_label, current_frame, mx, my, changes_made,
                   h5_file, mat_file, shown, pc, loaded, label_file, fixed_label_file, touched>>

\* Editor._edit_label on EVENT_LBUTTONUP, lines 135-136
MouseUp ==
    /\ pc = "wait"
    /\ mouse_pressed' = FALSE
    /\ ops' = <<>>
    /\ raised' = "none"
    /\ event' = Ev("up", <<>>)
    /\ gesture' = IF gesture = "drag" THEN "up" ELSE "none"
    /\ UNCHANGED <<label_data, current_label, current_frame, mx, my, changes_made,
                   h5_file, mat_file, shown, pc, loaded, label_file, fixed_label_file, touched>>

\* the display made by a mouse move while the button is held
MoveShown(ex, ey) == DrawLabel(current_frame, current_label, FromInt(ex), FromInt(ey))

\* variant: every move is saved, whether or not the button is held
MouseMove_SaveAlways(ex, ey) ==
    /\ pc = "wait"
    /\ CanEdit(current_frame)
    /\ mx' = ex
    /\ my' = ey
    /\ SaveLabel(current_frame, mx', my')
    /\ shown' = MoveShown(mx', my')
    /\ ops' = <<"store", "to_hdf", "imshow">>
    /\ raised' = "none"
    /\ event' = Ev("move", <<>>)
    /\ gesture' = IF gesture \in {"down", "drag"} THEN "drag" ELSE "none"
    /\ UNCHANGED <<current_label, current_frame, mouse_pressed, mat_file, pc, loaded, label_file, fixed_label_file>>

MouseMove(ex, ey) ==
    /\ pc = "wait"
    /\ IF mouse_pressed
       THEN /\ mx' = ex
            /\ my' = ey
            /\ shown' = MoveShown(mx', my')
            /\ ops' = <<"imshow">>
       ELSE /\ UNCHANGED <<mx, my, shown>>
            /\ ops' = <<>>
    /\ raised' = "none"
    /\ event' = Ev("move", <<>>)
    /\ gesture' = IF gesture \in {"down", "drag"} THEN "drag" ELSE "none"
    /\ UNCHANGED <<label_data, current_label, current_frame, mouse_pressed, changes_made,
                   h5_file, mat_file, pc, loaded, label_file, fixed_label_file, touched>>

(* ---- the trackbar observers ------------------------------------------- *)
\* the redraw both observers end with; an exception raised inside a window
\* callback is printed and the wait goes on
Redraw(frame, label) ==
    LET r == GetLabelXY(label_data, label, frame)
    IN  /\ raised' = r.err
        /\ IF r.err = "none"
           THEN /\ shown' = DrawLabel(frame, label, r.x, r.y)
                /\ ops' = <<"imshow">>
           ELSE /\ UNCHANGED shown
                /\ ops' = <<>>

\* Editor._on_label_trackbar, for a slider moved towards position i
OnLabelTrackbar(i) ==
    /\ pc = "wait"
    /\ current_label' = TrackbarPos(i, label_max)
    /\ Redraw(current_frame, current_label')
    /\ event' = Ev("label", <<i>>)
    /\ gesture' = "none"
    /\ UNCHANGED <<label_data, current_frame, mx, my, mouse_pressed, changes_made,
                   h5_file, mat_file, pc, loaded, label_file, fixed_label_file, touched>>

\* variant: the frame observer assigns the label index, as the label observer does
OnFrameTrackbar_SetsLabel(i) ==
    /\ pc = "wait"
    /\ current_label' = TrackbarPos(i, label_max)
    /\ Redraw(current_frame, current_label')
    /\ event' = Ev("frame", <<i>>)
    /\ gesture' = "none"
    /\ UNCHANGED <<label_data, current_frame, mx, my, mouse_pressed, changes_made,
                   h5_file, mat_file, pc, loaded, label_file, fixed_label_file, touched>>

\* Editor._on_frame_trackbar, for a slider moved towards position i
OnFrameTrackbar(i) ==
    /\ pc = "wait"
    /\ current_frame' = TrackbarPos(i, frame_count)
    /\ Redraw(current_frame', current_label)
    /\ event' = Ev("frame", <<i>>)
    /\ gesture' = "none"
    /\ UNCHANGED <<label_data, current_label, mx, my, mouse_pressed, changes_made,
                   h5_file, mat_file, pc, loaded, label_file, fixed_label_file, touched>>

\* slider requests, one step beyond each end of the range included
LabelRequests == (0 - 1)..(label_max + 1)
FrameRequests == (0 - 1)..(frame_count + 1)

Next ==
    \/ Start
    \/ \E key \in Keys : Key(key)
    \/ \E p \in MousePoints : MouseDown(p[1], p[2])
    \/ MouseUp
    \/ \E p \in MousePoints : MouseMove(p[1], p[2])
    \/ \E i \in LabelRequests : OnLabelTrackbar(i)
    \/ \E i \in FrameRequests : OnFrameTrackbar(i)

Spec == Init /\ [][Next]_vars

(* ---- construction on any label file name -------------------------------- *)
InitPath ==
    /\ label_file \in LabelFiles
    /\ fixed_label_file = NoPath
    /\ label_data \in LoadedTables
    /\ loaded = label_data
    /\ current_label = 0
    /\ current_frame = 0
    /\ mx = 0
    /\ my = 0
    /\ mouse_pressed = FALSE
    /\ changes_made = FALSE
    /\ h5_file = Absent
    /\ mat_file = Absent
    /\ shown = Absent
    /\ pc = "new"
    /\ event = Ev("init", <<>>)
    /\ raised = "none"
    /\ ops = <<>>
    /\ touched = {}
    /\ gesture = "none"

\* Editor.__init__: the output path is derived from the input path
Construct ==
    /\ pc = "new"
    /\ fixed_label_file' = FixedLabelFile(label_file)
    /\ pc' = "start"
    /\ UNCHANGED <<label_data, current_label, current_frame, mx, my, mouse_pressed,
                   changes_made, h5_file, mat_file, shown, event, raised, ops,
                   loaded, label_file, touched, gesture>>

SpecPath == InitPath /\ [][Construct]_vars

(* ---- sessions in which a file write fails ------------------------------ *)
\* Editor._save_label when to_hdf raises: lines 98-99 have run, line 103 has not
SaveLabelFails(frame, x, y) ==
    /\ label_data' = SaveLabelData(label_data, current_label, frame, FromInt(x), FromInt(y))
    /\ touched' = touched \cup {<<frame, current_label>>}
    /\ ops' = <<"store", "to_hdf">>
    /\ raised' = "OSError"
    /\ UNCHANGED <<h5_file, changes_made, shown>>

\* Editor._edit_label on EVENT_LBUTTONDOWN when to_hdf raises: the exception
\* ends the callback before lines 132-133, is printed, and the wait goes on
MouseDownFails(ex, ey) ==
    /\ pc = "wait"
    /\ CanEdit(current_frame)
    /\ mx' = ex
    /\ my' = ey
    /\ SaveLabelFails(current_frame, mx', my')
    /\ event' = Ev("down", <<ex, ey>>)
    /\ gesture' = "none"
    /\ UNCHANGED <<current_frame, current_label, mouse_pressed, mat_file, pc, loaded, label_file, fixed_label_file>>

\* Editor.run when a write raises: to_hdf in the loop pass (line 191) or savemat
\* after the loop (line 217); the exception leaves run() and ends the process
KeyFails(key) ==
    /\ pc = "wait"
    /\ current_frame' = KeyFrame(key, current_frame)
    /\ IF key = KeyEsc
       THEN /\ changes_made
            /\ shown' = Absent
            /\ ops' = <<"savemat">>
            /\ raised' = "OSError"
            /\ UNCHANGED <<label_data, h5_file, changes_made, touched>>
       ELSE /\ mouse_pressed
            /\ CanEdit(current_frame')
            /\ SaveLabelFails(current_frame', mx, my)
    /\ pc' = "error"
    /\ event' = Ev("key", <<key, current_frame>>)
    /\ gesture' = "none"
    /\ UNCHANGED <<current_label, mx, my, mouse_pressed, mat_file, loaded, label_file, fixed_label_file>>

NextIO ==
    \/ Next
    \/ \E p \in MousePoints : MouseDownFails(p[1], p[2])
    \/ \E key \in Keys : KeyFails(key)

SpecIO == Init /\ [][NextIO]_vars

(* ---- sessions on any input file --------------------------------------- *)
\* pd.read_hdf accepts a table in which one channel of a cell is missing alone:
\* the first label's last frame with both channels, x alone or y alone missing
AnyTables ==
    { [c \in Cells |-> IF c = <<frame_count, 0>> THEN Cell(xy[1], xy[2], c)
                                                 ELSE Cell(BaseXY(c)[1], BaseXY(c)[2], c)] :
        xy \in { <<NaN, NaN>>, <<NaN, Float(0, TRUE)>>, <<Float(1, TRUE), NaN>> } }

InitAnyTable ==
    /\ label_data \in AnyTables
    /\ loaded = label_data
    /\ label_file = DefaultLabelFile
    /\ fixed_label_file = FixedLabelFile(label_file)
    /\ current_label = 0
    /\ current_frame = 0
    /\ mx = 0
    /\ my = 0
    /\ mouse_pressed = FALSE
    /\ changes_made = FALSE
    /\ h5_file = Absent
    /\ mat_file = Absent
    /\ shown = Absent
    /\ pc = "start"
    /\ event = Ev("init", <<>>)
    /\ raised = "none"
    /\ ops = <<>>
    /\ touched = {}
    /\ gesture = "none"

SpecAnyTable == InitAnyTable /\ [][Next]_vars

(* ======================================================================= *)
(* Properties                                                              *)
(* ======================================================================= *)
\* the active cell of the table
ActiveCell == label_data[<<current_frame, current_label>>]

\* C1: after pointer_down(p0), one or more pointer_drag(p1..pn) and pointer_up
\* with no other event in between, the active cell holds pn and dirty is true.
C1_WriteCompletenessOnDrag ==
    gesture = "up" =>
        /\ ActiveCell.x = FromInt(mx)
        /\ ActiveCell.y = FromInt(my)
        /\ changes_made

\* C2: pointer_down(x, y) with cursors (f, l) leaves cell (f, l) holding exactly
\* (x, y), dirty true, the pointer down, and the image of frame f redrawn with
\* the marker at (x, y); the store is written before the redraw; the cursors stay.
C2_PointerDown ==
    [][event'.name = "down" =>
        LET x == event'.a[1]
            y == event'.a[2]
            cell == label_data'[<<current_frame, current_label>>]
        IN  /\ cell.x = FromInt(x)
            /\ cell.y = FromInt(y)
            /\ changes_made'
            /\ mouse_pressed'
            /\ shown' = <<[frame |-> current_frame, marker |-> <<x, y>>,
                           text |-> <<LabelName(current_label)>>]>>
            /\ ops' = <<"store", "to_hdf", "imshow">>
            /\ current_frame' = current_frame
            /\ current_label' = current_label]_vars

\* a pointer_down at the last frame and last label, on a cell loaded as missing
C2_Witness ==
    /\ event.name = "down"
    /\ current_frame = frame_count
    /\ current_label = label_max
    /\ loaded[<<current_frame, current_label>>].x.nan
    /\ ActiveCell.x = FromInt(event.a[1])

\* C3: a pointer_drag received while the pointer is Idle leaves the store, the
\* dirty flag, both cursors and the written files unchanged and raises no error.
C3_NoOpWhenIdle ==
    [][(event'.name = "move" /\ ~mouse_pressed) =>
        /\ UNCHANGED <<label_data, changes_made, current_frame, current_label,
                       h5_file, mat_file>>
        /\ raised' = "none"]_vars

\* an idle pointer_drag in a session that already holds an edit
C3_Witness ==
    /\ event.name = "move"
    /\ ~mouse_pressed
    /\ changes_made

\* C4: set_frame, set_label and advance_frame, with the redraw or loop pass they
\* trigger, leave every cell of the table and the dirty flag unchanged, whatever
\* the pointer state.
C4_NavigationReadOnly ==
    [][(event'.name \in {"frame", "label"}
          \/ (event'.name = "key" /\ event'.a[1] \in {KeyLeft, KeyRight})) =>
        UNCHANGED <<label_data, changes_made>>]_vars

C6_KeySaturates ==
    /\ [](current_frame \in 0..(NumFrames - 1) /\ current_label \in 0..(NumLabels - 1))
    /\ [][event'.name = "key" =>
            /\ event'.a[1] = KeyLeft => current_frame' = Max(0, current_frame - 1)
            /\ event'.a[1] = KeyRight =>
                  current_frame' = Min(NumFrames - 1, current_frame + 1)]_vars

\* 'next frame' pressed at the last frame
C6_Witness ==
    /\ event.name = "key"
    /\ event.a = <<KeyRight, NumFrames - 1>>
    /\ current_frame = NumFrames - 1

\* C7: while dirty is false neither output file has been written; a session that
\* ended with quit and dirty true has written both.
C7_NoEditNoOutput ==
    /\ ~changes_made => (h5_file = Absent /\ mat_file = Absent)
    /\ (pc = "done" /\ changes_made) => (h5_file # Absent /\ mat_file # Absent)

\* a session that navigated, made no edit and ended with quit
C7_Witness ==
    /\ pc = "done"
    /\ ~changes_made
    /\ current_frame = frame_count

\* C8: every likelihood equals its loaded value, the frames and labels are those
\* loaded, and a cell that was never active during a store write holds its
\* loaded (x, y).
C8_EditTouchesOneCell ==
    /\ DOMAIN label_data = DOMAIN loaded
    /\ \A c \in DOMAIN loaded :
        /\ label_data[c].likelihood = loaded[c].likelihood
        /\ c \notin touched =>
              (label_data[c].x = loaded[c].x /\ label_data[c].y = loaded[c].y)

\* two cells were edited, the others were not
C8_Witness ==
    /\ Cardinality(touched) = 2
    /\ \A c \in touched : label_data[c].x # loaded[c].x

\* x is missing iff y is missing, in every cell
MissingTogether(data) == \A c \in DOMAIN data : data[c].x.nan <=> data[c].y.nan

\* C9: if x is missing iff y is missing in every loaded cell, the same holds in
\* every reachable state, and a written cell has both channels present.
C9_MissingTogether ==
    /\ MissingTogether(loaded) => MissingTogether(label_data)
    /\ \A c \in touched : ~label_data[c].x.nan /\ ~label_data[c].y.nan

\* a cell loaded as missing was written, in a table loaded missing-together
C9_Witness ==
    /\ MissingTogether(loaded)
    /\ \E c \in touched : loaded[c].x.nan /\ loaded[c].y.nan

\* C10: dirty is false at session start, never goes back to false, and is true
\* exactly when at least one store write has occurred.
C10_DirtyMonotonicExact ==
    /\ ~changes_made /\ touched = {}
    /\ [][/\ changes_made => changes_made'
          /\ changes_made' <=> touched' # {}]_vars

\* dirty survived pointer_up and a navigation
C10_Witness ==
    /\ changes_made
    /\ ~mouse_pressed
    /\ event.name = "frame"

\* C11: when the session ends dirty, the *.mat file holds one entry per loaded
\* label name, each with x, y and likelihood of length N whose element f is the
\* final table's value for (f, label), the values of the last written h5 file.
C11_SecondaryIsReshape ==
    (pc = "done" /\ changes_made) =>
        /\ Len(mat_file) = 1
        /\ Len(h5_file) = 1
        /\ DOMAIN mat_file[1] = { label_names[k] : k \in 1..Len(label_names) }
        /\ \A k \in 1..Len(label_names) :
            LET entry == mat_file[1][label_names[k]]
            IN  /\ Len(entry.x) = NumFrames
                /\ Len(entry.y) = NumFrames
                /\ Len(entry.likelihood) = NumFrames
                /\ \A f \in 0..(NumFrames - 1) :
                    /\ entry.x[f + 1] = label_data[<<f, k - 1>>].x
                    /\ entry.y[f + 1] = label_data[<<f, k - 1>>].y
                    /\ entry.likelihood[f + 1] = label_data[<<f, k - 1>>].likelihood
                    /\ entry.x[f + 1] = h5_file[1][<<f, k - 1>>].x
                    /\ entry.y[f + 1] = h5_file[1][<<f, k - 1>>].y
                    /\ entry.likelihood[f + 1] = h5_file[1][<<f, k - 1>>].likelihood

\* a session that edited two cells and ended with quit
C11_Witness ==
    /\ pc = "done"
    /\ changes_made
    /\ mat_file # Absent
    /\ Cardinality(touched) = 2

\* C12: a redraw driven by the store (set_frame, set_label, a loop pass with the
\* pointer Idle) shows the frame without marker and without label text when a
\* coordinate of the active cell is missing, and raises no error; when the
\* coordinates are present it shows the marker at the rounded stored (x, y)
\* with the active label's name.
C12_MissingIsSafe ==
    [][(\/ event'.name \in {"frame", "label"}
        \/ (event'.name = "start" /\ ~mouse_pressed)
        \/ (event'.name = "key" /\ event'.a[1] # KeyEsc /\ ~mouse_pressed)) =>
        LET cell == label_data[<<current_frame', current_label'>>]
        IN  /\ raised' = "none"
            /\ pc' # "error"
            /\ IF cell.x.nan \/ cell.y.nan
               THEN shown' = <<[frame |-> current_frame', marker |-> Absent,
                                text |-> Absent]>>
               ELSE shown' = <<[frame |-> current_frame',
                                marker |-> <<Round(cell.x), Round(cell.y)>>,
                                text |-> <<label_names[current_label' + 1]>>]>>]_vars

\* C13: in a dirty session a failed write of the primary file does not suppress
\* the attempt to write the secondary file, and a failed write of the secondary
\* file leaves the primary file written.
C13_WritesFailIndependently ==
    /\ (pc \in {"done", "error"} /\ changes_made) =>
            \E i \in 1..Len(ops) : ops[i] = "savemat"
    /\ (raised = "OSError" /\ ops = <<"savemat">>) => h5_file # Absent

C16_PointerUpEndsEditing ==
    [][/\ event'.name = "up" =>
            /\ ~mouse_pressed'
            /\ UNCHANGED <<label_data, h5_file, changes_made>>
       /\ (~mouse_pressed /\ event'.name # "down") =>
            UNCHANGED <<label_data, h5_file, changes_made>>]_vars

\* after an edit and a pointer_up, a key moved the frame and nothing was written
C16_Witness ==
    /\ ~mouse_pressed
    /\ changes_made
    /\ event.name = "key"
    /\ event.a = <<KeyRight, 0>>
    /\ current_frame = 1
    /\ touched = {<<0, 0>>}
    /\ pc = "wait"

C18_WriteThrough ==
    changes_made => h5_file = <<label_data>>

\* two cells have been edited, the second by a loop pass with the button held,
\* and the loop is waiting
C18_Witness ==
    /\ changes_made
    /\ mouse_pressed
    /\ pc = "wait"
    /\ event.name = "key"
    /\ Cardinality(touched) = 2
    /\ \A c \in touched : label_data[c].x # loaded[c].x

\* C19: whenever the button is released and the loop is waiting for input, the
\* picture on screen is the current frame with the marker at the rounded stored
\* coordinate of the active cell, or with no marker when that cell is missing.
C19_DisplayAgreesWhenIdle ==
    (pc = "wait" /\ ~mouse_pressed) =>
        LET cell == label_data[<<current_frame, current_label>>]
        IN  shown = <<[frame |-> current_frame,
                       marker |-> IF cell.x.nan \/ cell.y.nan THEN Absent
                                  ELSE <<Round(cell.x), Round(cell.y)>>,
                       text |-> IF cell.x.nan \/ cell.y.nan THEN Absent
                                ELSE <<label_names[current_label + 1]>>]>>
====
